---------------------------- MODULE Spec2Model ----------------------------
(* Model of the adaptive-learning core of ai-shiksha                        *)
(* (src/unnamed/part_011: calculateMasteryLevel, getNextTopic,              *)
(* calculateOptimalDifficulty, generateLearningPath, identifyLearningGaps,  *)
(* calculateLearningVelocity, predictTimeToMastery).                        *)
(*                                                                          *)
(* State: the student progress (topic -> attempts) that the progress store  *)
(* grows, the curriculum graph, the batch of assessment results and the     *)
(* performance history handed to the analytics, and ret, the result of the  *)
(* last call of an exported function together with its arguments.  The      *)
(* specifications share the actions: Spec (any graph, short histories),     *)
(* SpecSingle (the graph {A, B: [A]}, long histories of A), SpecPath        *)
(* (learning paths), SpecGaps (gap analysis of a batch), SpecDifficulty     *)
(* (difficulty after a performance history), SpecVelocity (velocity over    *)
(* timed attempts), SpecPredict (days to mastery), SpecCore (all seven      *)
(* functions over one set of data), SpecLong (histories of fully correct    *)
(* attempts) and SpecAdaptive (difficulty while results are appended).      *)
(*                                                                          *)
(* Numbers.  JavaScript computes in IEEE-754 doubles.  Every quantity in    *)
(* calculateMasteryLevel is a rational number except the square root of     *)
(* the variance, so the model keeps exact integers: an accuracy is the      *)
(* integer Acc(a) over the common denominator AccDen, the weighted score    *)
(* is WeightedNum / (AccDen * n^2), and the variance of the last m          *)
(* accuracies is VarNum / (m * AccDen)^2.  Math.round(x) is the floor of   *)
(* x + 1/2, computed on integers with the square root rounded up (see       *)
(* RoundParts).  When x + 1/2 is exactly an integer the accumulated rounding *)
(* error of the doubles decides on which side the computed value falls      *)
(* (0.575 * 100 is 57.49999999999999 but 0.825 * 100 is 82.5); the model    *)
(* takes the side as the input halfDown of the call.  In the same way the   *)
(* quotient under Math.ceil in predictTimeToMastery can fall just above an  *)
(* integer it should be equal to (input above).  A double that may be NaN   *)
(* or Infinity is kept as a Quotient with a denominator that may be 0.      *)

EXTENDS Integers, Sequences, FiniteSets, TLC

VARIABLES studentProgress, curriculumGraph, ret, assessmentResults,
          recentPerformance

vars ==
    <<studentProgress, curriculumGraph, ret, assessmentResults,
      recentPerformance>>

----------------------------------------------------------------------------
(* Bounds                                                                   *)

MaxLen == 6             \* longest attempt history of the single-topic runs
MaxTotalAttempts == 3   \* attempts logged over all topics in the graph runs
MaxPathAttempts == 2    \* attempts logged in the learning-path runs
MaxTargets == 6         \* longest targetTopics list
MaxTimeframe == 6       \* longest timeframe in days
MaxQuestions == 4       \* most questions of a batch over several topics
MaxTopicQuestions == 10 \* most questions of a batch on one topic
MaxPerformance == 7     \* longest recentPerformance
MaxTimedAttempts == 2   \* attempts logged in the velocity runs
MaxWeeks == 2           \* longest window of weeks
MaxPredictAttempts == 4 \* attempts logged in the prediction runs
MaxCoreAttempts == 1    \* attempts logged in the runs of all functions
MaxCorrectLen == 9      \* longest history of fully correct attempts

(* Program constants                                                        *)

MasteryThreshold == 70
InProgressFloor == 20
DefaultImportance == 5
RecentWindow == 5
PhaseDivisor == 4

Topics == {"A", "B", "C"}

(* Attempts {correct, total}: the data model asks correct >= 0, total > 0.  *)
AttemptValues ==
    { [correct |-> 0, total |-> 1], [correct |-> 1, total |-> 2],
      [correct |-> 2, total |-> 2], [correct |-> 3, total |-> 2] }

(* Fully correct attempts, of one and of two questions.                     *)
CorrectAttemptValues ==
    { [correct |-> 1, total |-> 1], [correct |-> 2, total |-> 2] }

(* The attempts logged in the runs over whole curriculum graphs.            *)
GraphAttemptValues ==
    { [correct |-> 0, total |-> 1], [correct |-> 1, total |-> 2],
      [correct |-> 2, total |-> 2] }

----------------------------------------------------------------------------
(* Arithmetic helpers                                                       *)

Min(a, b) == IF a <= b THEN a ELSE b

\* Math.ceil(a / b) for a >= 0, b > 0
CeilDiv(a, b) == (a + b - 1) \div b

\* the common denominator of the accuracies correct / total
AccDen ==
    CHOOSE d \in 1..16 :
        /\ \A a \in AttemptValues : d % a.total = 0
        /\ \A e \in 1..(d - 1) : \E a \in AttemptValues : e % a.total # 0

\* attempt.correct / attempt.total, as a numerator over AccDen
Acc(a) == (a.correct * AccDen) \div a.total

\* attempts.slice(-5)
SliceLast(s, k) ==
    IF Len(s) <= k THEN s ELSE SubSeq(s, Len(s) - k + 1, Len(s))

RECURSIVE SumTo(_, _, _)
\* sum of f[i] for i in lo..hi
SumTo(f, lo, hi) == IF lo > hi THEN 0 ELSE f[hi] + SumTo(f, lo, hi - 1)

RECURSIVE SumOver(_, _)
\* sum of f[x] for x in S
SumOver(f, S) ==
    IF S = {} THEN 0
    ELSE LET x == CHOOSE y \in S : TRUE IN f[x] + SumOver(f, S \ {x})

RECURSIVE CeilSqrtIn(_, _, _)
\* the least c in lo..hi with c * c >= k, where hi * hi >= k
CeilSqrtIn(k, lo, hi) ==
    IF lo >= hi THEN hi
    ELSE LET mid == (lo + hi) \div 2
         IN  IF mid * mid >= k THEN CeilSqrtIn(k, lo, mid)
             ELSE CeilSqrtIn(k, mid + 1, hi)

\* Math.ceil(Math.sqrt(k)) for 0 <= k < 2^31
CeilSqrt(k) == CeilSqrtIn(k, 0, 46340)

----------------------------------------------------------------------------
(* calculateMasteryLevel                                                    *)

\* the reduce of line 21 with weights that sum to 1: divided by
\* n * (n + 1) / 2 in the place of n * n
WeightedNumNormalized(attempts) ==
    LET f == [i \in 1..Len(attempts) |-> Acc(attempts[i]) * i]
    IN  (2 * Len(attempts) * SumTo(f, 1, Len(attempts)))
            \div (Len(attempts) + 1)

\* sum over the attempts of accuracy_i * (index + 1): the reduce of line 21
\* before its two divisions by attempts.length, as a numerator over AccDen
WeightedNum(attempts) ==
    LET f == [i \in 1..Len(attempts) |-> Acc(attempts[i]) * i]
    IN  SumTo(f, 1, Len(attempts))

\* the sum of the recent accuracies (numerator of avgAccuracy)
RecentSum(attempts) ==
    LET r == SliceLast(attempts, RecentWindow)
        f == [i \in 1..Len(r) |-> Acc(r[i])]
    IN  SumTo(f, 1, Len(r))

\* variance * (m * AccDen)^2 for the m recent accuracies:
\* sum (p_i - avg)^2 / m  =  (m * sum p_i^2 - (sum p_i)^2) / m^2
VarOf(m, sq, s) == m * sq - s * s

VarNum(attempts) ==
    LET r == SliceLast(attempts, RecentWindow)
        f == [i \in 1..Len(r) |-> Acc(r[i]) * Acc(r[i])]
    IN  VarOf(Len(r), SumTo(f, 1, Len(r)), RecentSum(attempts))

\* line 34 on exact numbers.  With n attempts, m recent ones, W the
\* weighted numerator and V the variance numerator,
\*   weightedScore = W / (AccDen * n^2)
\*   consistency   = 1 - sqrt(V) / (m * AccDen)
\*   (weightedScore * 0.7 + consistency * 0.3) * 100 + 1/2
\*       = (m * (140 * W + 61 * AccDen * n^2) - 60 * n^2 * sqrt(V))
\*             / (2 * m * AccDen * n^2)
\* and Math.round is the floor of that.  The record gives the floor and
\* whether the quotient is an integer (the value lies on a half).
RoundOf(n, m, W, root, radicand) ==
    [ floor |-> (m * (140 * W + 61 * AccDen * n * n) - root)
                    \div (2 * m * AccDen * n * n),
      onHalf |-> /\ root * root = radicand
                 /\ (m * (140 * W + 61 * AccDen * n * n) - root)
                        % (2 * m * AccDen * n * n) = 0 ]

\* the square of 60 * n^2 * sqrt(V) and its root rounded up
RootOf(n, m, W, radicand) == RoundOf(n, m, W, CeilSqrt(radicand), radicand)

RoundParts(attempts) ==
    RootOf(Len(attempts), Min(RecentWindow, Len(attempts)),
           WeightedNum(attempts),
           3600 * Len(attempts) * Len(attempts) * Len(attempts)
               * Len(attempts) * VarNum(attempts))

\* the exact value lies on a half
OnHalf(attempts) == RoundParts(attempts).onHalf

\* the side of a half: halfDown when the doubles fall below it
RoundSide(parts, halfDown) ==
    IF parts.onHalf /\ halfDown THEN parts.floor - 1 ELSE parts.floor

\* Math.round((weightedScore * 0.7 + consistency * 0.3) * 100)
MasteryLevelOf(attempts, halfDown) ==
    RoundSide(RoundParts(attempts), halfDown)

\* the thresholds taken as exclusive bounds
StatusOfExclusive(masteryLevel) ==
    IF masteryLevel > 90 THEN "mastered"
    ELSE IF masteryLevel > 70 THEN "proficient"
    ELSE IF masteryLevel > 50 THEN "developing"
    ELSE IF masteryLevel > 30 THEN "struggling"
    ELSE "needs-support"

\* lines 36-42
StatusOf(masteryLevel) ==
    IF masteryLevel >= 90 THEN "mastered"
    ELSE IF masteryLevel >= 70 THEN "proficient"
    ELSE IF masteryLevel >= 50 THEN "developing"
    ELSE IF masteryLevel >= 30 THEN "struggling"
    ELSE "needs-support"

\* consistency = 1 - sqrt(variance), kept as  whole - sqrt(radicand) / over
ConsistencyOf(attempts) ==
    [ whole |-> 1, radicand |-> VarNum(attempts),
      over |-> Min(RecentWindow, Len(attempts)) * AccDen ]

Zero == [whole |-> 0, radicand |-> 0, over |-> 1]

\* the value of a consistency record is exactly 1
IsOne(c) == c.whole = 1 /\ c.radicand = 0

\* the empty history falling through to the status of level 0
NotStartedByLevel ==
    [level |-> 0, status |-> "needs-support", confidence |-> Zero]

\* lines 13-17: the result for an empty or absent history
NotStarted == [level |-> 0, status |-> "not-started", confidence |-> Zero]

\* lines 44-50
MasteryResult(attempts, masteryLevel) ==
    [ level |-> masteryLevel,
      status |-> StatusOf(masteryLevel),
      confidence |-> ConsistencyOf(attempts),
      totalAttempts |-> Len(attempts),
      recentAccuracy |->
          [ num |-> RecentSum(attempts),
            den |-> Min(RecentWindow, Len(attempts)) * AccDen ] ]

calculateMasteryLevel(attempts, halfDown) ==
    IF Len(attempts) = 0
    THEN NotStarted
    ELSE MasteryResult(attempts, MasteryLevelOf(attempts, halfDown))

----------------------------------------------------------------------------
(* getNextTopic                                                             *)

\* a curriculum graph is the sequence of its entries in the enumeration
\* order of Object.entries: [topic, prerequisites, difficulty, importance],
\* difficulty "" and importance 0 standing for a field that is not set
Null == [null |-> TRUE]

\* the attempts of a topic, <<>> for a topic without progress entry
AttemptsOf(progress, topic) ==
    IF topic \in DOMAIN progress THEN progress[topic].attempts ELSE <<>>

\* mastery taken as the status 'mastered' (level >= 90)
MasteredTopicsStrict(progress, fp) ==
    { topic \in DOMAIN progress :
        calculateMasteryLevel(progress[topic].attempts, fp[topic]).level
            >= 90 }

\* lines 64-69: the topics of the progress whose level is >= 70
MasteredTopics(progress, fp) ==
    { topic \in DOMAIN progress :
        calculateMasteryLevel(progress[topic].attempts, fp[topic]).level
            >= MasteryThreshold }

\* lines 81-87: the entry pushed for an available topic
RecommendationOf(data, currentMastery) ==
    [ topic |-> data.topic,
      difficulty |-> IF data.difficulty = "" THEN "medium"
                     ELSE data.difficulty,
      importance |-> IF data.importance = 0 THEN DefaultImportance
                     ELSE data.importance,
      currentMastery |-> currentMastery.level,
      status |-> currentMastery.status ]

\* lines 77-87
Recommendation(progress, data, fp) ==
    RecommendationOf(data,
        IF data.topic \in DOMAIN progress
        THEN calculateMasteryLevel(progress[data.topic].attempts,
                                   fp[data.topic])
        ELSE [level |-> 0, status |-> "not-started"])

\* lines 73-76 with a topic not waiting for itself
IsAvailableIgnoringSelf(data, mastered) ==
    /\ \A prereq \in data.prerequisites \ {data.topic} : prereq \in mastered
    /\ data.topic \notin mastered

\* line 76 with prerequisites.some in the place of prerequisites.every
IsAvailableSome(data, mastered) ==
    /\ \E prereq \in data.prerequisites : prereq \in mastered
    /\ data.topic \notin mastered

\* lines 73-76: allPrereqsMet && !masteredTopics.has(topic)
IsAvailable(data, mastered) ==
    /\ \A prereq \in data.prerequisites : prereq \in mastered
    /\ data.topic \notin mastered

\* the available entries of the graph but for its first entry
OpenEntriesTail(graph, mastered) ==
    LET Open(data) == IsAvailable(data, mastered)
    IN  IF graph = <<>> THEN <<>> ELSE SelectSeq(Tail(graph), Open)

\* the entries of the graph that are available, in the order of the graph
OpenEntries(graph, mastered) ==
    LET Open(data) == IsAvailable(data, mastered)
    IN  SelectSeq(graph, Open)

RecommendAll(progress, open, fp) ==
    [i \in 1..Len(open) |-> Recommendation(progress, open[i], fp)]

\* lines 72-89: the available topics, in the order of the graph
AvailableTopics(progress, graph, fp) ==
    RecommendAll(progress, OpenEntries(graph, MasteredTopics(progress, fp)),
                 fp)

\* started only above the level 30
InProgressAbove(a) ==
    a.currentMastery > 30 /\ a.currentMastery < MasteryThreshold

\* lines 94-95: started (20-70% mastery)
InProgress(a) ==
    a.currentMastery > InProgressFloor /\ a.currentMastery < MasteryThreshold

\* importance ascending
CompareAscending(a, b) ==
    IF InProgress(a) /\ ~InProgress(b) THEN -1
    ELSE IF ~InProgress(a) /\ InProgress(b) THEN 1
    ELSE a.importance - b.importance

\* the comparator of lines 92-102
Compare(a, b) ==
    IF InProgress(a) /\ ~InProgress(b) THEN -1
    ELSE IF ~InProgress(a) /\ InProgress(b) THEN 1
    ELSE b.importance - a.importance

RECURSIVE Insert(_, _)
\* x goes behind every element that does not sort after it
Insert(x, sorted) ==
    IF sorted = <<>> THEN <<x>>
    ELSE IF Compare(sorted[Len(sorted)], x) > 0
         THEN Append(Insert(x, SubSeq(sorted, 1, Len(sorted) - 1)),
                     sorted[Len(sorted)])
         ELSE Append(sorted, x)

RECURSIVE SortStable(_)
\* Array.prototype.sort, which is stable
SortStable(s) ==
    IF s = <<>> THEN <<>>
    ELSE Insert(s[Len(s)], SortStable(SubSeq(s, 1, Len(s) - 1)))

\* availableTopics[1] in the place of availableTopics[0]
SecondOrNull(availableTopics) ==
    IF Len(availableTopics) < 2 THEN Null ELSE availableTopics[2]

\* line 104: availableTopics[0] || null
FirstOrNull(availableTopics) ==
    IF availableTopics = <<>> THEN Null ELSE availableTopics[1]

\* lines 59-105
getNextTopic(progress, graph, fp) ==
    FirstOrNull(SortStable(AvailableTopics(progress, graph, fp)))

----------------------------------------------------------------------------
(* generateLearningPath                                                     *)

Activities ==
    << "Watch introduction video", "Complete practice exercises",
       "Take mini-assessment", "Review and reinforce" >>

DailyActivities ==
    << [activity |-> "Review previous lesson", duration |-> 5],
       [activity |-> "New concept learning", duration |-> 15],
       [activity |-> "Practice exercises", duration |-> 10] >>

\* reading .topics of undefined at line 185
TypeError == [threw |-> "TypeError"]

\* line 149: [next?.topic].filter(Boolean)
TopicList(next) == IF next = Null THEN <<>> ELSE <<next.topic>>

\* lines 147-149: the targets, or the one topic of getNextTopic, or nothing
CurrentTopics(progress, graph, targetTopics, fp) ==
    IF Len(targetTopics) > 0 THEN targetTopics
    ELSE TopicList(getNextTopic(progress, graph, fp))

\* line 151: Math.ceil(length / 4) || 1
TopicsPerPhase(n) ==
    IF CeilDiv(n, PhaseDivisor) = 0 THEN 1 ELSE CeilDiv(n, PhaseDivisor)

\* the phase count taken for Math.ceil(length / 4)
PhaseCountByDivisor(n) == CeilDiv(n, PhaseDivisor)

\* line 152
PhaseCount(n) == CeilDiv(n, TopicsPerPhase(n))

\* lines 157-173: the phase pushed for phaseTopics
Phase(i, duration, phaseTopics) ==
    [ phase |-> i,
      duration |-> duration,
      topics |-> phaseTopics,
      goals |-> [j \in 1..Len(phaseTopics) |-> <<"Master", phaseTopics[j]>>],
      activities |-> Activities,
      milestones |-> [complete |-> Len(phaseTopics),
                      mastery |-> MasteryThreshold] ]

\* line 155 with a slice that takes the first topic of the next phase too
PhaseTopicsInclusive(currentTopics, i, topicsPerPhase) ==
    SubSeq(currentTopics, (i - 1) * topicsPerPhase + 1,
           Min(i * topicsPerPhase + 1, Len(currentTopics)))

\* line 155: currentTopics.slice(i * topicsPerPhase, (i+1) * topicsPerPhase)
\* for the phase numbered i from 1
PhaseTopics(currentTopics, i, topicsPerPhase) ==
    SubSeq(currentTopics, (i - 1) * topicsPerPhase + 1,
           Min(i * topicsPerPhase, Len(currentTopics)))

\* lines 154-174
Phases(currentTopics, timeframe) ==
    [ i \in 1..PhaseCount(Len(currentTopics)) |->
        Phase(i, CeilDiv(timeframe, PhaseCount(Len(currentTopics))),
              PhaseTopics(currentTopics, i,
                          TopicsPerPhase(Len(currentTopics)))) ]

\* line 179 dividing by the duration of a phase, Math.ceil(timeframe /
\* phaseCount), in the place of timeframe / phaseCount
PhaseIndexByDuration(day, timeframe, phaseCount) ==
    IF phaseCount = 0 THEN 0 ELSE (day - 1) \div CeilDiv(timeframe, phaseCount)

\* line 179: Math.floor((day - 1) / (timeframe / phaseCount)); the divisor
\* is Infinity for phaseCount = 0, and the quotient 0.  phaseCount is at
\* most 4 and day - 1 < timeframe, so the quotient of the doubles has the
\* floor of the exact (day - 1) * phaseCount / timeframe.
PhaseIndex(day, timeframe, phaseCount) ==
    IF phaseCount = 0 THEN 0 ELSE ((day - 1) * phaseCount) \div timeframe

\* lines 182-192: the entry pushed for a day
Day(day, phase, currentPhase, dailyTimeAvailable) ==
    [ day |-> day,
      phase |-> phase + 1,
      topics |-> currentPhase.topics,
      timeAllocated |-> dailyTimeAvailable,
      activities |-> DailyActivities ]

\* line 180 taking the last phase for every day
CurrentPhaseLast(phases, phase) == phases[Len(phases)]

\* line 180: path.phases[phase] || path.phases[path.phases.length - 1];
\* phases are indexed from 1 here, from 0 in the code
CurrentPhase(phases, phase) ==
    IF phase < Len(phases) THEN phases[phase + 1] ELSE phases[Len(phases)]

\* lines 178-193, the loop ending a day early
DailyScheduleShort(phases, timeframe, dailyTimeAvailable) ==
    [ day \in 1..(timeframe - 1) |->
        Day(day, PhaseIndex(day, timeframe, Len(phases)),
            CurrentPhase(phases, PhaseIndex(day, timeframe, Len(phases))),
            dailyTimeAvailable) ]

\* lines 178-193
DailySchedule(phases, timeframe, dailyTimeAvailable) ==
    [ day \in 1..timeframe |->
        Day(day, PhaseIndex(day, timeframe, Len(phases)),
            CurrentPhase(phases, PhaseIndex(day, timeframe, Len(phases))),
            dailyTimeAvailable) ]

\* the path of lines 141-197 for the phases built; with no phase the first
\* day reads .topics of undefined
PathOf(phases, timeframe, daily) ==
    IF timeframe >= 1 /\ Len(phases) = 0
    THEN TypeError
    ELSE [ phases |-> phases,
           estimatedDuration |-> timeframe,
           dailySchedule |-> DailySchedule(phases, timeframe, daily) ]

\* lines 132-198; daily is dailyTimeAvailable
generateLearningPath(progress, graph, targetTopics, timeframe, daily, fp) ==
    PathOf(Phases(CurrentTopics(progress, graph, targetTopics, fp),
                  timeframe),
           timeframe, daily)

----------------------------------------------------------------------------
(* calculateOptimalDifficulty                                               *)

\* the reduce of lines 117-119: the results of the window that are correct
CorrectCount(window) ==
    Cardinality({ i \in 1..Len(window) : window[i].correct })

\* lines 122-124 for recentAccuracy = correct / count, in tenths
DifficultyOfStrict(correct, count) ==
    IF 10 * correct > 8 * count THEN "hard"
    ELSE IF 10 * correct > 6 * count THEN "medium"
    ELSE "easy"

\* 'medium' only above 0.6
DifficultyOfStrictMedium(correct, count) ==
    IF 10 * correct >= 8 * count THEN "hard"
    ELSE IF 10 * correct > 6 * count THEN "medium"
    ELSE "easy"

\* lines 122-124 for recentAccuracy = correct / count, in tenths
DifficultyOf(correct, count) ==
    IF 10 * correct >= 8 * count THEN "hard"
    ELSE IF 10 * correct >= 6 * count THEN "medium"
    ELSE "easy"

\* lines 117-124; the divisor Math.min(5, length) is the length of the window
WindowDifficulty(window) == DifficultyOf(CorrectCount(window), Len(window))

\* lines 112-125; recentPerformance is Null or [list |-> the array]
calculateOptimalDifficulty(performance) ==
    IF performance = Null THEN "easy"
    ELSE IF Len(performance.list) = 0 THEN "easy"
    ELSE WindowDifficulty(SliceLast(performance.list, RecentWindow))

----------------------------------------------------------------------------
(* identifyLearningGaps                                                     *)

ErrorLimit == 3

\* question.topic || 'general' (line 211): no topic and '' are 'general'
TopicOf(question) ==
    IF question.topic = "" THEN "general" ELSE question.topic

\* result.results?.forEach (line 209): a result without results has none
ResultsOf(result) ==
    IF "results" \in DOMAIN result THEN result.results ELSE <<>>

RECURSIVE AllQuestions(_)
\* the questions in the order in which lines 208-227 visit them
AllQuestions(results) ==
    IF results = <<>> THEN <<>>
    ELSE ResultsOf(Head(results)) \o AllQuestions(Tail(results))

\* line 213: a topic gets its entry of topicPerformance when it is first met
AddKey(keys, topic) ==
    IF \E i \in 1..Len(keys) : keys[i] = topic THEN keys
    ELSE Append(keys, topic)

RECURSIVE KeysOf(_, _)
\* the keys of topicPerformance after the first n questions, in the order
\* of Object.entries: the order in which they were inserted (topics are
\* names; a key that is an array index would come before all names)
KeysOf(questions, n) ==
    IF n = 0 THEN <<>>
    ELSE AddKey(KeysOf(questions, n - 1), TopicOf(questions[n]))

\* lines 220-224: the record pushed for an incorrect question
ErrorOf(question) ==
    [ question |-> question.question,
      studentAnswer |-> question.studentAnswer,
      correctAnswer |-> question.correctAnswer ]

ErrorsOf(wrong) == [i \in 1..Len(wrong) |-> ErrorOf(wrong[i])]

\* lines 213-225: topicPerformance[topic] after all questions
TopicPerformance(questions, topic) ==
    LET Right(q) == TopicOf(q) = topic /\ q.isCorrect
        Wrong(q) == TopicOf(q) = topic /\ ~q.isCorrect
        Asked(q) == TopicOf(q) = topic
    IN  [ correct |-> Len(SelectSeq(questions, Right)),
          total |-> Len(SelectSeq(questions, Asked)),
          errors |-> ErrorsOf(SelectSeq(questions, Wrong)) ]

\* line 231 and line 233: correct / total < 0.7, in tenths
IsGapInclusive(performance) ==
    10 * performance.correct <= 7 * performance.total

\* line 231 and line 233: correct / total < 0.7, in tenths
IsGap(performance) == 10 * performance.correct < 7 * performance.total

\* lines 234-237 for accuracy = correct / total, in tenths
SeverityOf(correct, total) ==
    IF 10 * correct < 3 * total THEN "critical"
    ELSE IF 10 * correct < 5 * total THEN "high"
    ELSE "medium"

\* Math.round(accuracy * 100) (line 242): the floor of 100 c / t + 1 / 2;
\* the doubles give the same for every total up to 39
RoundPercent(correct, total) == (200 * correct + total) \div (2 * total)

\* lines 261-269: the text chosen for the topic
getRecommendation(topic, correct, total) ==
    IF 10 * correct < 3 * total THEN <<"Review foundational concepts", topic>>
    ELSE IF 10 * correct < 5 * total THEN <<"Practice more exercises", topic>>
    ELSE <<"Continue practicing", topic>>

\* errors.slice(0, 3) (line 245)
SliceFirstFrom2(errors, k) == SubSeq(errors, 2, Min(Len(errors), k + 1))

\* errors.slice(0, 3) (line 245)
SliceFirst(errors, k) == SubSeq(errors, 1, Min(Len(errors), k))

\* lines 239-247: the gap pushed for a topic
Gap(topic, performance) ==
    [ topic |-> topic,
      severity |-> SeverityOf(performance.correct, performance.total),
      accuracy |-> RoundPercent(performance.correct, performance.total),
      totalQuestions |-> performance.total,
      incorrectCount |-> performance.total - performance.correct,
      commonErrors |-> SliceFirst(performance.errors, ErrorLimit),
      recommendation |-> getRecommendation(topic, performance.correct,
                                           performance.total) ]

\* Object.entries(topicPerformance) (line 230)
Entries(questions, keys) ==
    [ i \in 1..Len(keys) |->
        [topic |-> keys[i], performance |-> TopicPerformance(questions, keys[i])] ]

GapsOfEntries(below) ==
    [i \in 1..Len(below) |-> Gap(below[i].topic, below[i].performance)]

\* lines 229-249: the gaps in the order of the entries
GapsOf(entries) ==
    LET Below(entry) == IsGap(entry.performance)
    IN  GapsOfEntries(SelectSeq(entries, Below))

\* severityOrder (line 252)
SeverityOrder(severity) ==
    CASE severity = "critical" -> 0
      [] severity = "high" -> 1
      [] severity = "medium" -> 2

\* the comparator of line 253, with the operands exchanged
CompareGapsDescending(a, b) ==
    SeverityOrder(b.severity) - SeverityOrder(a.severity)

\* the comparator of line 253
CompareGaps(a, b) == SeverityOrder(a.severity) - SeverityOrder(b.severity)

RECURSIVE InsertGap(_, _)
\* x goes behind every gap that does not sort after it
InsertGap(x, sorted) ==
    IF sorted = <<>> THEN <<x>>
    ELSE IF CompareGaps(sorted[Len(sorted)], x) > 0
         THEN Append(InsertGap(x, SubSeq(sorted, 1, Len(sorted) - 1)),
                     sorted[Len(sorted)])
         ELSE Append(sorted, x)

RECURSIVE SortGaps(_)
\* gaps.sort (line 253), which is stable
SortGaps(gaps) ==
    IF gaps = <<>> THEN <<>>
    ELSE InsertGap(gaps[Len(gaps)], SortGaps(SubSeq(gaps, 1, Len(gaps) - 1)))

GapsOfQuestions(questions) ==
    SortGaps(GapsOf(Entries(questions, KeysOf(questions, Len(questions)))))

\* lines 205-256
identifyLearningGaps(results) == GapsOfQuestions(AllQuestions(results))

----------------------------------------------------------------------------
(* calculateLearningVelocity                                                *)

DaysPerWeek == 7

\* the double a / b of non-negative integers: with b = 0 it is Infinity
\* (a > 0) or NaN (a = 0)
Quotient(a, b) == [num |-> a, den |-> b]

NaN == Quotient(0, 0)

IsNaN(x) == x.num = 0 /\ x.den = 0

IsInfinity(x) == x.num > 0 /\ x.den = 0

\* x > a / b for a double x and integers a >= 0, b > 0: false of NaN
GreaterThan(x, a, b) ==
    IF x.den = 0 THEN x.num > 0 ELSE x.num * b > a * x.den

\* cutoffDate (lines 278-279), in days, when the clock reads now
CutoffDate(now, weeks) == now - weeks * DaysPerWeek

\* line 286, with the attempts after the cutoff only
RecentAttemptsAfter(data, cutoffDate) ==
    IF "attempts" \in DOMAIN data
    THEN LET Recent(a) == a.timestamp > cutoffDate
         IN  SelectSeq(data.attempts, Recent)
    ELSE <<>>

\* line 286: data.attempts?.filter(a => new Date(a.timestamp) >= cutoffDate)
\* || []
RecentAttempts(data, cutoffDate) ==
    IF "attempts" \in DOMAIN data
    THEN LET Recent(a) == a.timestamp >= cutoffDate
         IN  SelectSeq(data.attempts, Recent)
    ELSE <<>>

\* recentAttempts of every topic of the progress
RecentProgress(progress, cutoffDate) ==
    [ topic \in DOMAIN progress |->
        [attempts |-> RecentAttempts(progress[topic], cutoffDate)] ]

\* data.timeSpent || 0 (line 296)
TimeSpentOf(data) == IF "timeSpent" \in DOMAIN data THEN data.timeSpent ELSE 0

\* line 288: the topics counted in topicsStarted
StartedTopics(recent) ==
    { topic \in DOMAIN recent : Len(recent[topic].attempts) > 0 }

\* lines 291-294: the topics counted in topicsMastered
RecentlyMastered(recent, started, fp) ==
    { topic \in started :
        calculateMasteryLevel(recent[topic].attempts, fp[topic]).level >= 70 }

\* line 296: totalTimeSpent
TotalTimeSpent(progress, started) ==
    SumOver([topic \in started |-> TimeSpentOf(progress[topic])], started)

\* lines 303-305
VelocityLabel(topicsPerWeek) ==
    IF GreaterThan(topicsPerWeek, 1, 1) THEN "fast"
    ELSE IF GreaterThan(topicsPerWeek, 1, 2) THEN "steady"
    ELSE "slow"

\* line 302
AverageTimePerTopic(totalTimeSpent, topicsStarted) ==
    IF topicsStarted > 0 THEN Quotient(totalTimeSpent, topicsStarted)
    ELSE Quotient(0, 1)

\* lines 299-306
VelocityOf(topicsMastered, topicsStarted, totalTimeSpent, weeks) ==
    [ topicsPerWeek |-> Quotient(topicsMastered, weeks),
      topicsStarted |-> topicsStarted,
      topicsMastered |-> topicsMastered,
      averageTimePerTopic |-> AverageTimePerTopic(totalTimeSpent, topicsStarted),
      velocity |-> VelocityLabel(Quotient(topicsMastered, weeks)) ]

\* lines 285-298: the counters after the loop over the entries
VelocityOfStarted(progress, recent, started, weeks, fp) ==
    VelocityOf(Cardinality(RecentlyMastered(recent, started, fp)),
               Cardinality(started), TotalTimeSpent(progress, started), weeks)

VelocityOfRecent(progress, recent, weeks, fp) ==
    VelocityOfStarted(progress, recent, StartedTopics(recent), weeks, fp)

\* lines 277-307; now is the reading of the clock (new Date(), line 278)
calculateLearningVelocity(progress, weeks, now, fp) ==
    VelocityOfRecent(progress,
                     RecentProgress(progress, CutoffDate(now, weeks)),
                     weeks, fp)

----------------------------------------------------------------------------
(* predictTimeToMastery                                                     *)

ProgressPerTopic == 10
DaysCap == 90

Max(a, b) == IF a >= b THEN a ELSE b

\* lines 318-320
CurrentLevel(progress, topic, halfDown) ==
    IF topic \in DOMAIN progress
    THEN calculateMasteryLevel(progress[topic].attempts, halfDown).level
    ELSE 0

\* remaining / ((topicsPerWeek / 7) * 10) is exactly an integer: then the
\* rounding errors of the two divisions can leave the double just above it
\* (70 / ((1 / 7) * 10) is 49.00000000000001)
OnInteger(remaining, topicsPerWeek) ==
    /\ topicsPerWeek.num > 0
    /\ topicsPerWeek.den > 0
    /\ (remaining * DaysPerWeek * topicsPerWeek.den)
           % (ProgressPerTopic * topicsPerWeek.num) = 0

\* line 327 for a positive finite topicsPerWeek, rounding down
FloorDays(remaining, topicsPerWeek, above) ==
    (remaining * DaysPerWeek * topicsPerWeek.den)
        \div (ProgressPerTopic * topicsPerWeek.num)

\* line 327 for a positive finite topicsPerWeek; above tells that the double
\* quotient fell just above an integer
CeilDays(remaining, topicsPerWeek, above) ==
    CeilDiv(remaining * DaysPerWeek * topicsPerWeek.den,
            ProgressPerTopic * topicsPerWeek.num)
        + (IF above /\ OnInteger(remaining, topicsPerWeek) THEN 1 ELSE 0)

\* lines 326-327: remaining > 0 over NaN is NaN, over Infinity 0, over 0
\* Infinity
EstimatedDays(remaining, topicsPerWeek, above) ==
    IF IsNaN(topicsPerWeek) THEN NaN
    ELSE IF IsInfinity(topicsPerWeek) THEN Quotient(0, 1)
    ELSE IF topicsPerWeek.num = 0 THEN Quotient(1, 0)
    ELSE Quotient(CeilDays(remaining, topicsPerWeek, above), 1)

\* line 329 without the cap of 90 days
ClampDaysBelow(estimatedDays) ==
    IF estimatedDays.den = 0 THEN estimatedDays
    ELSE Quotient(Max(1, estimatedDays.num), 1)

\* line 329: Math.max(1, Math.min(estimatedDays, 90)); NaN stays NaN
ClampDays(estimatedDays) ==
    IF IsNaN(estimatedDays) THEN NaN
    ELSE IF IsInfinity(estimatedDays) THEN Quotient(DaysCap, 1)
    ELSE Quotient(Max(1, Min(estimatedDays.num, DaysCap)), 1)

\* lines 321-329
DaysToMastery(remainingMastery, topicsPerWeek, above) ==
    IF remainingMastery <= 0 THEN Quotient(0, 1)
    ELSE ClampDays(EstimatedDays(remainingMastery, topicsPerWeek, above))

\* lines 316-330
predictTimeToMastery(topic, progress, learningVelocity, halfDown, above) ==
    DaysToMastery(70 - CurrentLevel(progress, topic, halfDown),
                  learningVelocity.topicsPerWeek, above)

----------------------------------------------------------------------------
(* Inputs                                                                   *)

\* an entry of the graph; the topics of importance 8 are the ones that set
\* a difficulty
Entry(topic, prerequisites, importance) ==
    [ topic |-> topic, prerequisites |-> prerequisites,
      difficulty |-> IF importance = 8 THEN "hard" ELSE "",
      importance |-> importance ]

\* prerequisites of A, B, C: none, a chain, a join, a cycle, a self loop,
\* a prerequisite enumerated after its dependants
PrereqShapes ==
    { <<{}, {}, {}>>, <<{}, {"A"}, {"B"}>>, <<{}, {}, {"A", "B"}>>,
      <<{"B"}, {"A"}, {}>>, <<{"A"}, {}, {"A"}>>, <<{"C"}, {"C"}, {}>> }

\* importance of A, B, C; 0 is a topic without importance
ImportanceShapes ==
    { <<0, 0, 0>>, <<3, 0, 8>>, <<8, 0, 3>>, <<8, 8, 0>>, <<0, 3, 3>>,
      <<3, 8, 8>>, <<0, 8, 3>> }

Graph3(p, i) ==
    << Entry("A", p[1], i[1]), Entry("B", p[2], i[2]), Entry("C", p[3], i[3]) >>

\* the graph {A: prereqs = [], B: prereqs = [A]}
GraphAB == << Entry("A", {}, 0), Entry("B", {"A"}, 0) >>

\* a graph whose topic A waits for C, which is no topic of the graph
GraphOutside == << Entry("B", {}, 3), Entry("A", {"C"}, 8) >>

\* every shape of prerequisites without and with importances, and every
\* shape of importances over topics that are all open
Graphs ==
    { <<>>, GraphAB, GraphOutside }
        \cup { Graph3(p, i) : p \in PrereqShapes,
                              i \in {<<0, 0, 0>>, <<3, 0, 8>>} }
        \cup { Graph3(<<{}, {}, {}>>, i) : i \in ImportanceShapes }

PathGraphs == { <<>>, << Entry("A", {}, 0) >>, GraphAB }

TargetUniverse == << "T1", "T2", "T3", "T4", "T5", "T6", "T7", "T8", "T9" >>

TargetLists == { SubSeq(TargetUniverse, 1, k) : k \in 0..MaxTargets }

Timeframes == 1..MaxTimeframe

NoProgress == [topic \in {} |-> <<>>]

NoCall == [op |-> "none"]

TotalAttempts(progress) ==
    SumOver([t \in DOMAIN progress |-> Len(progress[t].attempts)],
            DOMAIN progress)

\* the sides on which the exact halves of a call may fall
Roundings(progress) ==
    LET halves == { t \in DOMAIN progress :
                        /\ progress[t].attempts # <<>>
                        /\ OnHalf(progress[t].attempts) }
    IN  { [t \in Topics |-> t \in down] : down \in SUBSET halves }

(* Inputs of the analytics                                                  *)

\* a question of an assessment: its topic ('' when it names none) and
\* whether the answer was correct
QuestionKinds ==
    { [topic |-> t, isCorrect |-> c] :
        t \in {"fractions", "algebra", ""}, c \in BOOLEAN }

\* the k-th question of a batch
Question(kind, k) ==
    [ topic |-> kind.topic, isCorrect |-> kind.isCorrect, question |-> k,
      studentAnswer |-> IF kind.isCorrect THEN <<"key", k>> ELSE <<"slip", k>>,
      correctAnswer |-> <<"key", k>> ]

\* up to MaxQuestions questions of any kinds
QuestionLists ==
    UNION { { [k \in 1..n |-> Question(kinds[k], k)] :
                kinds \in [1..n -> QuestionKinds] } : n \in 0..MaxQuestions }

\* up to MaxTopicQuestions questions on one topic, the first c correct
TopicQuestionLists ==
    { [k \in 1..n |->
         Question([topic |-> "fractions", isCorrect |-> k <= c], k)] :
        n \in 1..MaxTopicQuestions, c \in 0..MaxTopicQuestions }

\* the questions as one assessment, as two, and behind an assessment that
\* has no results
Whole(questions) == << [results |-> questions] >>

Halved(questions) ==
    << [results |-> SubSeq(questions, 1, Len(questions) \div 2)],
       [results |-> SubSeq(questions, Len(questions) \div 2 + 1,
                           Len(questions))] >>

Preceded(questions) ==
    << [assessmentId |-> "open"], [results |-> questions] >>

Batches ==
    { <<>> }
        \cup { Whole(q) : q \in QuestionLists }
        \cup { Halved(q) : q \in QuestionLists \cup TopicQuestionLists }
        \cup { Preceded(q) : q \in QuestionLists }

PerformanceLists ==
    UNION { [1..n -> { [correct |-> TRUE], [correct |-> FALSE] }] :
              n \in 0..MaxPerformance }

\* recentPerformance: absent, or an array
Performances == { Null } \cup { [list |-> s] : s \in PerformanceLists }

\* time in days: attempts are made on the first day, a week later, and on
\* the last day; the clock is read on the last day or the day after
LastDay == MaxWeeks * DaysPerWeek

Timestamps == { 0, DaysPerWeek, LastDay }

Clock == { LastDay, LastDay + 1 }

TimedAttemptValues ==
    { [correct |-> a.correct, total |-> a.total, timestamp |-> d] :
        a \in { [correct |-> 0, total |-> 1], [correct |-> 2, total |-> 2] },
        d \in Timestamps }

\* minutes added to timeSpent with an attempt
Minutes == { 0, 15 }

VelocityTopics == { "A", "B" }

Weeks == 0..MaxWeeks

\* learningVelocity objects: topicsMastered / weeks as
\* calculateLearningVelocity returns it
Velocities ==
    { [topicsPerWeek |-> Quotient(m, w)] :
        m \in 0..Cardinality(Topics), w \in Weeks }

\* the sides on which the quotient of line 327 may fall
Aboves(progress, topic, learningVelocity, halfDown) ==
    IF /\ CurrentLevel(progress, topic, halfDown) < 70
       /\ OnInteger(70 - CurrentLevel(progress, topic, halfDown),
                    learningVelocity.topicsPerWeek)
    THEN BOOLEAN ELSE { FALSE }

\* inputs of the runs of all functions
CoreBatches ==
    { <<>>,
      Whole(<<Question([topic |-> "fractions", isCorrect |-> FALSE], 1)>>),
      Halved(<<Question([topic |-> "", isCorrect |-> FALSE], 1),
               Question([topic |-> "fractions", isCorrect |-> TRUE], 2)>>) }

CorePerformances ==
    { Null, [list |-> <<[correct |-> TRUE], [correct |-> FALSE]>>] }

CoreTargetLists == { <<>>, SubSeq(TargetUniverse, 1, 2) }

CoreTimeframes == { 1, 3 }

\* attempts of the last day
CoreAttemptValues == { a \in TimedAttemptValues : a.timestamp = LastDay }

----------------------------------------------------------------------------
(* Actions                                                                  *)

\* the progress store records one more attempt of a topic; a result
\* obtained before is of the old progress and is dropped
LogAttempt(topic, attempt, limit) ==
    /\ TotalAttempts(studentProgress) < limit
    /\ studentProgress' =
         [ t \in DOMAIN studentProgress \cup {topic} |->
             IF t = topic
             THEN [attempts |-> Append(AttemptsOf(studentProgress, t), attempt)]
             ELSE studentProgress[t] ]
    /\ ret' = NoCall
    /\ UNCHANGED <<curriculumGraph, assessmentResults, recentPerformance>>

\* calculateMasteryLevel taking its window with splice(-5), which removes
\* the window from the attempts it was given
CallCalculateMasteryLevelSplicing(topic, fp) ==
    /\ ret' = [ op |-> "calculateMasteryLevel", topic |-> topic, fp |-> fp,
                value |-> calculateMasteryLevel(
                              AttemptsOf(studentProgress, topic), fp[topic]) ]
    /\ studentProgress' =
         [ t \in DOMAIN studentProgress |->
             IF t = topic
             THEN [ attempts |->
                      SubSeq(studentProgress[t].attempts, 1,
                             Len(studentProgress[t].attempts)
                               - Min(RecentWindow,
                                     Len(studentProgress[t].attempts))),
                    timeSpent |-> TimeSpentOf(studentProgress[t]) ]
             ELSE studentProgress[t] ]
    /\ UNCHANGED <<curriculumGraph, assessmentResults, recentPerformance>>

CallCalculateMasteryLevel(topic, fp) ==
    /\ ret' = [ op |-> "calculateMasteryLevel", topic |-> topic, fp |-> fp,
                value |-> calculateMasteryLevel(
                              AttemptsOf(studentProgress, topic), fp[topic]) ]
    /\ UNCHANGED <<studentProgress, curriculumGraph, assessmentResults,
                   recentPerformance>>

CallGetNextTopic(fp) ==
    /\ ret' = [ op |-> "getNextTopic", fp |-> fp,
                value |-> getNextTopic(studentProgress, curriculumGraph, fp) ]
    /\ UNCHANGED <<studentProgress, curriculumGraph, assessmentResults,
                   recentPerformance>>

CallGenerateLearningPath(targetTopics, timeframe, fp) ==
    /\ ret' = [ op |-> "generateLearningPath", fp |-> fp,
                targetTopics |-> targetTopics, timeframe |-> timeframe,
                value |-> generateLearningPath(studentProgress,
                              curriculumGraph, targetTopics, timeframe, 30,
                              fp) ]
    /\ UNCHANGED <<studentProgress, curriculumGraph, assessmentResults,
                   recentPerformance>>

\* an attempt may be appended when it is not older than the last one
Chronological(attempts, attempt) ==
    IF attempts = <<>> THEN TRUE
    ELSE attempts[Len(attempts)].timestamp <= attempt.timestamp

TimeSpentIn(progress, topic) ==
    IF topic \in DOMAIN progress THEN TimeSpentOf(progress[topic]) ELSE 0

\* the progress store records a timed attempt and the minutes spent on it
LogTimedAttempt(topic, attempt, minutes, limit) ==
    /\ TotalAttempts(studentProgress) < limit
    /\ Chronological(AttemptsOf(studentProgress, topic), attempt)
    /\ studentProgress' =
         [ t \in DOMAIN studentProgress \cup {topic} |->
             IF t = topic
             THEN [ attempts |->
                      Append(AttemptsOf(studentProgress, t), attempt),
                    timeSpent |-> TimeSpentIn(studentProgress, t) + minutes ]
             ELSE studentProgress[t] ]
    /\ ret' = NoCall
    /\ UNCHANGED <<curriculumGraph, assessmentResults, recentPerformance>>

CallIdentifyLearningGaps ==
    /\ ret' = [ op |-> "identifyLearningGaps",
                value |-> identifyLearningGaps(assessmentResults) ]
    /\ UNCHANGED <<studentProgress, curriculumGraph, assessmentResults,
                   recentPerformance>>

\* the caller appends the result of a question to the performance history
RecordResult(result, limit) ==
    /\ \/ recentPerformance = Null
       \/ /\ recentPerformance # Null
          /\ Len(recentPerformance.list) < limit
    /\ recentPerformance' =
          IF recentPerformance = Null THEN [list |-> <<result>>]
          ELSE [list |-> Append(recentPerformance.list, result)]
    /\ ret' = NoCall
    /\ UNCHANGED <<studentProgress, curriculumGraph, assessmentResults>>

CallCalculateOptimalDifficulty ==
    /\ ret' = [ op |-> "calculateOptimalDifficulty",
                value |-> calculateOptimalDifficulty(recentPerformance) ]
    /\ UNCHANGED <<studentProgress, curriculumGraph, assessmentResults,
                   recentPerformance>>

CallCalculateLearningVelocity(weeks, now, fp) ==
    /\ ret' = [ op |-> "calculateLearningVelocity", weeks |-> weeks,
                now |-> now, fp |-> fp,
                value |-> calculateLearningVelocity(studentProgress, weeks,
                                                    now, fp) ]
    /\ UNCHANGED <<studentProgress, curriculumGraph, assessmentResults,
                   recentPerformance>>

CallPredictTimeToMastery(topic, learningVelocity, fp, above) ==
    /\ ret' = [ op |-> "predictTimeToMastery", topic |-> topic,
                learningVelocity |-> learningVelocity, fp |-> fp,
                above |-> above,
                value |-> predictTimeToMastery(topic, studentProgress,
                              learningVelocity, fp[topic], above) ]
    /\ UNCHANGED <<studentProgress, curriculumGraph, assessmentResults,
                   recentPerformance>>

----------------------------------------------------------------------------
(* Specifications                                                           *)

\* any curriculum graph, short histories of all topics
Init ==
    /\ curriculumGraph \in Graphs
    /\ studentProgress = NoProgress
    /\ ret = NoCall
    /\ assessmentResults = <<>>
    /\ recentPerformance = Null

Next ==
    \/ \E topic \in Topics, attempt \in GraphAttemptValues :
          LogAttempt(topic, attempt, MaxTotalAttempts)
    \/ \E fp \in Roundings(studentProgress) : CallGetNextTopic(fp)

Spec == Init /\ [][Next]_vars

\* the graph {A, B: prereqs = [A]}, long histories of A
InitSingle ==
    /\ curriculumGraph = GraphAB
    /\ studentProgress \in {NoProgress, [t \in {"A"} |-> [attempts |-> <<>>]]}
    /\ ret = NoCall
    /\ assessmentResults = <<>>
    /\ recentPerformance = Null

NextSingle ==
    \/ \E attempt \in AttemptValues : LogAttempt("A", attempt, MaxLen)
    \/ \E fp \in Roundings(studentProgress) :
          CallCalculateMasteryLevel("A", fp)
    \/ \E fp \in Roundings(studentProgress) : CallGetNextTopic(fp)

SpecSingle == InitSingle /\ [][NextSingle]_vars

\* learning paths over lists of targets and timeframes
InitPath ==
    /\ curriculumGraph \in PathGraphs
    /\ studentProgress = NoProgress
    /\ ret = NoCall
    /\ assessmentResults = <<>>
    /\ recentPerformance = Null

NextPath ==
    \/ \E attempt \in GraphAttemptValues :
          LogAttempt("A", attempt, MaxPathAttempts)
    \/ \E targetTopics \in TargetLists, timeframe \in Timeframes,
          fp \in Roundings(studentProgress) :
          CallGenerateLearningPath(targetTopics, timeframe, fp)

SpecPath == InitPath /\ [][NextPath]_vars

\* gap analysis of a batch of completed assessments
InitGaps ==
    /\ curriculumGraph = <<>>
    /\ studentProgress = NoProgress
    /\ ret = NoCall
    /\ assessmentResults \in Batches
    /\ recentPerformance = Null

NextGaps == CallIdentifyLearningGaps

SpecGaps == InitGaps /\ [][NextGaps]_vars

\* difficulty of the next question after a performance history
InitDifficulty ==
    /\ curriculumGraph = <<>>
    /\ studentProgress = NoProgress
    /\ ret = NoCall
    /\ assessmentResults = <<>>
    /\ recentPerformance \in Performances

NextDifficulty == CallCalculateOptimalDifficulty

SpecDifficulty == InitDifficulty /\ [][NextDifficulty]_vars

\* learning velocity over timed attempts of two topics
InitVelocity ==
    /\ curriculumGraph = <<>>
    /\ studentProgress = NoProgress
    /\ ret = NoCall
    /\ assessmentResults = <<>>
    /\ recentPerformance = Null

NextVelocity ==
    \/ \E topic \in VelocityTopics, attempt \in TimedAttemptValues,
          minutes \in Minutes :
          LogTimedAttempt(topic, attempt, minutes, MaxTimedAttempts)
    \/ \E weeks \in Weeks, now \in Clock :
          \E fp \in Roundings(RecentProgress(studentProgress,
                                             CutoffDate(now, weeks))) :
             CallCalculateLearningVelocity(weeks, now, fp)

SpecVelocity == InitVelocity /\ [][NextVelocity]_vars

\* days to mastery of a topic with a history (A) and of one without (B)
InitPredict ==
    /\ curriculumGraph = <<>>
    /\ studentProgress = NoProgress
    /\ ret = NoCall
    /\ assessmentResults = <<>>
    /\ recentPerformance = Null

NextPredict ==
    \/ \E attempt \in GraphAttemptValues :
          LogAttempt("A", attempt, MaxPredictAttempts)
    \/ \E topic \in VelocityTopics, learningVelocity \in Velocities,
          fp \in Roundings(studentProgress) :
          \E above \in Aboves(studentProgress, topic, learningVelocity,
                              fp[topic]) :
             CallPredictTimeToMastery(topic, learningVelocity, fp, above)

SpecPredict == InitPredict /\ [][NextPredict]_vars

\* every exported function, on the progress of topic A
InitCore ==
    /\ curriculumGraph = GraphAB
    /\ studentProgress = NoProgress
    /\ ret = NoCall
    /\ assessmentResults \in CoreBatches
    /\ recentPerformance \in CorePerformances

NextCore ==
    \/ \E attempt \in CoreAttemptValues, minutes \in Minutes :
          LogTimedAttempt("A", attempt, minutes, MaxCoreAttempts)
    \/ \E topic \in VelocityTopics, fp \in Roundings(studentProgress) :
          CallCalculateMasteryLevel(topic, fp)
    \/ \E fp \in Roundings(studentProgress) : CallGetNextTopic(fp)
    \/ CallCalculateOptimalDifficulty
    \/ \E targetTopics \in CoreTargetLists, timeframe \in CoreTimeframes,
          fp \in Roundings(studentProgress) :
          CallGenerateLearningPath(targetTopics, timeframe, fp)
    \/ CallIdentifyLearningGaps
    \/ \E weeks \in Weeks, now \in Clock :
          \E fp \in Roundings(RecentProgress(studentProgress,
                                             CutoffDate(now, weeks))) :
             CallCalculateLearningVelocity(weeks, now, fp)
    \/ \E topic \in VelocityTopics, learningVelocity \in Velocities,
          fp \in Roundings(studentProgress) :
          \E above \in Aboves(studentProgress, topic, learningVelocity,
                              fp[topic]) :
             CallPredictTimeToMastery(topic, learningVelocity, fp, above)

SpecCore == InitCore /\ [][NextCore]_vars

\* the graph {A, B: prereqs = [A]}, long histories of fully correct attempts
InitLong ==
    /\ curriculumGraph = GraphAB
    /\ studentProgress = NoProgress
    /\ ret = NoCall
    /\ assessmentResults = <<>>
    /\ recentPerformance = Null

NextLong ==
    \/ \E attempt \in CorrectAttemptValues :
          LogAttempt("A", attempt, MaxCorrectLen)
    \/ \E fp \in Roundings(studentProgress) :
          CallCalculateMasteryLevel("A", fp)
    \/ \E fp \in Roundings(studentProgress) : CallGetNextTopic(fp)

SpecLong == InitLong /\ [][NextLong]_vars

\* difficulty of the next question while results are appended one at a time
InitAdaptive ==
    /\ curriculumGraph = <<>>
    /\ studentProgress = NoProgress
    /\ ret = NoCall
    /\ assessmentResults = <<>>
    /\ recentPerformance \in { Null, [list |-> <<>>] }

NextAdaptive ==
    \/ \E result \in { [correct |-> TRUE], [correct |-> FALSE] } :
          RecordResult(result, MaxPerformance)
    \/ CallCalculateOptimalDifficulty

SpecAdaptive == InitAdaptive /\ [][NextAdaptive]_vars

----------------------------------------------------------------------------
(* Vocabulary of the properties                                             *)

\* the attempts of the topic a calculateMasteryLevel call was made for
CallAttempts == AttemptsOf(studentProgress, ret.topic)

AllCorrect(attempts) ==
    \A i \in 1..Len(attempts) : attempts[i].correct = attempts[i].total

\* the mastery level of a topic as the call that produced ret computed it
LevelNow(topic) ==
    calculateMasteryLevel(AttemptsOf(studentProgress, topic),
                          ret.fp[topic]).level

GraphIndexes == 1..Len(curriculumGraph)

\* "available": every prerequisite mastered and the topic not mastered
AvailableNow(i) ==
    /\ LevelNow(curriculumGraph[i].topic) < 70
    /\ \A prereq \in curriculumGraph[i].prerequisites :
          /\ prereq \in Topics
          /\ LevelNow(prereq) >= 70

InProgressNow(i) ==
    /\ LevelNow(curriculumGraph[i].topic) > 20
    /\ LevelNow(curriculumGraph[i].topic) < 70

ImportanceNow(i) ==
    IF curriculumGraph[i].importance = 0 THEN 5
    ELSE curriculumGraph[i].importance

\* the result of getNextTopic is the recommendation of the graph entry i
Recommends(i) ==
    /\ ret.op = "getNextTopic"
    /\ ret.value # Null
    /\ ret.value.topic = curriculumGraph[i].topic

----------------------------------------------------------------------------
(* Properties                                                               *)

\* C1 (as claimed): every history of at least 2 attempts that are all fully
\* correct gets confidence 1, a level >= 90 and the status 'mastered'.
C1_AllCorrectMastered ==
    ( /\ ret.op = "calculateMasteryLevel"
      /\ Len(CallAttempts) >= 2
      /\ AllCorrect(CallAttempts) )
    => /\ IsOne(ret.value.confidence)
       /\ ret.value.level >= 90
       /\ ret.value.status = "mastered"

\* C2 (as claimed): generateLearningPath with no targets, when getNextTopic
\* yields none, returns without an error a path with at least one phase,
\* whose topic list is empty, and daily entries with an empty topic list.
C2_EmptyPathReturned ==
    ( /\ ret.op = "generateLearningPath"
      /\ ret.targetTopics = <<>>
      /\ getNextTopic(studentProgress, curriculumGraph, ret.fp) = Null )
    => /\ ret.value # TypeError
       /\ Len(ret.value.phases) >= 1
       /\ \A i \in 1..Len(ret.value.phases) :
             ret.value.phases[i].topics = <<>>
       /\ \A d \in 1..Len(ret.value.dailySchedule) :
             ret.value.dailySchedule[d].topics = <<>>

\* C3 (as claimed): 5 target topics give exactly ceil(5/4) = 2 phases.
C3_FiveTargetsTwoPhases ==
    (ret.op = "generateLearningPath" /\ Len(ret.targetTopics) = 5)
    => Len(ret.value.phases) = 2

\* C3 (amended): 5 target topics give exactly 3 phases, ceil(5 / 2), of
\* ceil(5/4) = 2 topics at most.
C3_FiveTargetsThreePhases ==
    (ret.op = "generateLearningPath" /\ Len(ret.targetTopics) = 5)
    => /\ ret.value # TypeError
       /\ Len(ret.value.phases) = 3
       /\ \A i \in 1..3 : Len(ret.value.phases[i].topics) <= 2

C3_Witness ==
    /\ ret.op = "generateLearningPath"
    /\ Len(ret.targetTopics) = 5
    /\ Len(ret.value.phases) = 3

\* C4: a topic recommended by getNextTopic is a topic of the graph whose
\* mastery level is < 70 and whose prerequisites all have a level >= 70.
C4_RecommendedIsAvailable ==
    (ret.op = "getNextTopic" /\ ret.value # Null)
    => \E i \in GraphIndexes :
          /\ Recommends(i)
          /\ LevelNow(ret.value.topic) < 70
          /\ \A prereq \in curriculumGraph[i].prerequisites :
                /\ prereq \in Topics
                /\ LevelNow(prereq) >= 70

\* a topic with two prerequisites is recommended after attempts of its own
C4_Witness ==
    \E i \in GraphIndexes :
        /\ Recommends(i)
        /\ Cardinality(curriculumGraph[i].prerequisites) = 2
        /\ AttemptsOf(studentProgress, curriculumGraph[i].topic) # <<>>

\* C5: getNextTopic returns none exactly when no topic of the graph is
\* unmastered with all its prerequisites mastered (every topic mastered, a
\* prerequisite missing everywhere, the empty graph).
C5_NoneIffNothingAvailable ==
    (ret.op = "getNextTopic")
    => (ret.value = Null <=> ~(\E i \in GraphIndexes : AvailableNow(i)))

\* none is returned for a graph of three topics that are all mastered
C5_Witness ==
    /\ ret.op = "getNextTopic"
    /\ ret.value = Null
    /\ Len(curriculumGraph) = 3
    /\ \A i \in GraphIndexes : LevelNow(curriculumGraph[i].topic) >= 70

\* C6: the recommendation is the first available topic in the order:
\* in-progress (20 < level < 70) before the others, then higher importance
\* (5 for a topic without one), then the order of the graph.
C6_FirstInOrder ==
    \A i \in GraphIndexes :
        Recommends(i)
        => /\ AvailableNow(i)
           /\ ret.value.importance = ImportanceNow(i)
           /\ ret.value.currentMastery = LevelNow(curriculumGraph[i].topic)
           /\ \A j \in GraphIndexes :
                 AvailableNow(j)
                 => /\ InProgressNow(j) => InProgressNow(i)
                    /\ (InProgressNow(j) <=> InProgressNow(i))
                          => /\ ImportanceNow(j) <= ImportanceNow(i)
                             /\ ImportanceNow(j) = ImportanceNow(i) => i <= j

\* an in-progress topic is recommended although an available topic that is
\* not in progress comes earlier in the graph with a higher importance, and
\* another one without importance set is passed over by importance
C6_Witness ==
    \E i, j \in GraphIndexes :
        /\ Recommends(i)
        /\ InProgressNow(i)
        /\ j < i
        /\ AvailableNow(j)
        /\ ~InProgressNow(j)
        /\ ImportanceNow(j) > ImportanceNow(i)

\* C7: for the graph {A, B: prereqs = [A]}, A with 5 attempts all fully
\* correct and B without attempts, getNextTopic recommends B, with
\* currentMastery 0 and status 'not-started'.
C7_RecommendsB ==
    ( /\ ret.op = "getNextTopic"
      /\ curriculumGraph = GraphAB
      /\ Len(AttemptsOf(studentProgress, "A")) = 5
      /\ AllCorrect(AttemptsOf(studentProgress, "A"))
      /\ AttemptsOf(studentProgress, "B") = <<>> )
    => /\ ret.value # Null
       /\ ret.value.topic = "B"
       /\ ret.value.currentMastery = 0
       /\ ret.value.status = "not-started"

C7_Witness ==
    /\ ret.op = "getNextTopic"
    /\ curriculumGraph = GraphAB
    /\ Len(AttemptsOf(studentProgress, "A")) = 5
    /\ AllCorrect(AttemptsOf(studentProgress, "A"))
    /\ ret.value # Null
    /\ ret.value.topic = "B"

\* C8 (as claimed): for every non-empty history of attempts with
\* correct >= 0 and total > 0 the level is an integer in 0..100.
C8_LevelInRange ==
    (ret.op = "calculateMasteryLevel" /\ CallAttempts # <<>>)
    => ret.value.level \in 0..100

\* C9: for an empty or absent history calculateMasteryLevel returns
\* level 0, status 'not-started' and confidence 0.
C9_EmptyHistory ==
    (ret.op = "calculateMasteryLevel" /\ CallAttempts = <<>>)
    => /\ ret.value.level = 0
       /\ ret.value.status = "not-started"
       /\ ret.value.confidence = Zero

\* the call was made for a topic that has an entry with no attempts
C9_Witness ==
    /\ ret.op = "calculateMasteryLevel"
    /\ ret.topic \in DOMAIN studentProgress
    /\ studentProgress[ret.topic].attempts = <<>>
    /\ ret.value.status = "not-started"

\* C10: for a non-empty history the status is decided by the level with
\* inclusive lower bounds 90, 70, 50, 30; 'not-started' is returned exactly
\* for the empty history.
C10_StatusOfLevel ==
    (ret.op = "calculateMasteryLevel")
    => LET level == ret.value.level
           status == ret.value.status
       IN  /\ status = "not-started" <=> CallAttempts = <<>>
           /\ CallAttempts # <<>> =>
                /\ status = "mastered" <=> level >= 90
                /\ status = "proficient" <=> (70 <= level /\ level < 90)
                /\ status = "developing" <=> (50 <= level /\ level < 70)
                /\ status = "struggling" <=> (30 <= level /\ level < 50)
                /\ status = "needs-support" <=> level < 30

\* a level on the lower bound of its status
C10_Witness ==
    /\ ret.op = "calculateMasteryLevel"
    /\ CallAttempts # <<>>
    /\ ret.value.level = 30
    /\ ret.value.status = "struggling"

----------------------------------------------------------------------------
(* Vocabulary of the gap analysis                                           *)

\* the places <<result, question>> of the questions of the batch
Positions ==
    UNION { { <<r, k>> : k \in 1..Len(ResultsOf(assessmentResults[r])) } :
              r \in 1..Len(assessmentResults) }

At(p) == ResultsOf(assessmentResults[p[1]])[p[2]]

\* the question at p is met before the question at q
Before(p, q) == p[1] < q[1] \/ (p[1] = q[1] /\ p[2] < q[2])

AskedOn(topic) == { p \in Positions : TopicOf(At(p)) = topic }

CorrectOn(topic) == { p \in AskedOn(topic) : At(p).isCorrect }

WrongOn(topic) == { p \in AskedOn(topic) : ~At(p).isCorrect }

BatchTopics == { TopicOf(At(p)) : p \in Positions }

GapIndexes == 1..Len(ret.value)

GapTopics == { ret.value[i].topic : i \in GapIndexes }

\* a is the integer nearest to 100 c / t, the half rounded up
IsRoundedPercent(a, c, t) ==
    2 * t * a <= 200 * c + t /\ 200 * c + t < 2 * t * (a + 1)

\* the severity of c correct answers out of t
IsSeverity(severity, c, t) ==
    /\ severity = "critical" <=> 10 * c < 3 * t
    /\ severity = "high" <=> (10 * c >= 3 * t /\ 10 * c < 5 * t)
    /\ severity = "medium" <=> 10 * c >= 5 * t

\* severity s may stand before severity u in the output
NotAfter(s, u) ==
    \/ s = u
    \/ s = "critical"
    \/ (s = "high" /\ u = "medium")

\* the first question on topic T is met before the first on topic U
FirstMetBefore(T, U) ==
    \E p \in AskedOn(T) : \A q \in AskedOn(U) : Before(p, q)

----------------------------------------------------------------------------
(* Properties of the analytics                                              *)

\* C11: a topic (the question's topic, or 'general' when it names none) is
\* in the output of identifyLearningGaps exactly when its correct answers
\* over its questions, summed over all results of the batch, are below 0.7;
\* it is there once, with severity 'critical' below 0.3, 'high' below 0.5,
\* else 'medium', and with accuracy round(100 * correct / total).
C11_GapsOfBatch ==
    (ret.op = "identifyLearningGaps")
    => /\ \A T \in BatchTopics \cup GapTopics :
            T \in GapTopics
              <=> /\ T \in BatchTopics
                  /\ 10 * Cardinality(CorrectOn(T))
                       < 7 * Cardinality(AskedOn(T))
       /\ \A i, j \in GapIndexes :
            ret.value[i].topic = ret.value[j].topic => i = j
       /\ \A i \in GapIndexes :
            /\ IsSeverity(ret.value[i].severity,
                          Cardinality(CorrectOn(ret.value[i].topic)),
                          Cardinality(AskedOn(ret.value[i].topic)))
            /\ IsRoundedPercent(ret.value[i].accuracy,
                                Cardinality(CorrectOn(ret.value[i].topic)),
                                Cardinality(AskedOn(ret.value[i].topic)))

\* 2 correct answers out of 10 questions on one topic, spread over two
\* results, are one critical gap of accuracy 20
C11_Witness ==
    /\ ret.op = "identifyLearningGaps"
    /\ Len(assessmentResults) = 2
    /\ \A r \in 1..2 : Len(ResultsOf(assessmentResults[r])) = 5
    /\ Cardinality(AskedOn("fractions")) = 10
    /\ Cardinality(CorrectOn("fractions")) = 2
    /\ Len(ret.value) = 1
    /\ ret.value[1].topic = "fractions"
    /\ ret.value[1].severity = "critical"
    /\ ret.value[1].accuracy = 20

C13_CommonErrors ==
    (ret.op = "identifyLearningGaps")
    => \A i \in GapIndexes :
          LET wrong == WrongOn(ret.value[i].topic)
              errors == ret.value[i].commonErrors
          IN  /\ ret.value[i].incorrectCount = Cardinality(wrong)
              /\ Len(errors) = Min(3, Cardinality(wrong))
              /\ \A n \in 1..Len(errors) :
                    \E p \in wrong :
                       /\ Cardinality({ q \in wrong : Before(q, p) }) = n - 1
                       /\ errors[n] =
                            [ question |-> At(p).question,
                              studentAnswer |-> At(p).studentAnswer,
                              correctAnswer |-> At(p).correctAnswer ]

\* a topic with more than 3 incorrect answers behind a correct one
C13_Witness ==
    /\ ret.op = "identifyLearningGaps"
    /\ \E i \in GapIndexes :
          /\ ret.value[i].incorrectCount > 3
          /\ Len(ret.value[i].commonErrors) = 3
          /\ \E p \in CorrectOn(ret.value[i].topic) :
                \A q \in WrongOn(ret.value[i].topic) : Before(p, q)

----------------------------------------------------------------------------
(* Vocabulary of the difficulty                                             *)

\* the indexes of the last min(5, n) results of recentPerformance
LastResults ==
    { i \in 1..Len(recentPerformance.list) :
        i > Len(recentPerformance.list) - 5 }

CorrectLastResults == { i \in LastResults : recentPerformance.list[i].correct }

\* C14: calculateOptimalDifficulty returns 'easy' for an absent or empty
\* history; else, with c correct among the last m = min(5, n) results,
\* 'hard' exactly when c / m >= 0.8, 'medium' exactly when
\* 0.6 <= c / m < 0.8, and 'easy' otherwise.
C14_DifficultyOfWindow ==
    (ret.op = "calculateOptimalDifficulty")
    => IF recentPerformance = Null THEN ret.value = "easy"
       ELSE IF recentPerformance.list = <<>> THEN ret.value = "easy"
       ELSE LET c == Cardinality(CorrectLastResults)
                m == Cardinality(LastResults)
            IN  /\ m = Min(5, Len(recentPerformance.list))
                /\ ret.value = "hard" <=> 10 * c >= 8 * m
                /\ ret.value = "medium" <=> (10 * c >= 6 * m /\ 10 * c < 8 * m)
                /\ ret.value = "easy" <=> 10 * c < 6 * m

\* 4 of the last 5 results are correct behind older incorrect ones
C14_Witness ==
    /\ ret.op = "calculateOptimalDifficulty"
    /\ recentPerformance # Null
    /\ Len(recentPerformance.list) > 5
    /\ \A i \in 1..Len(recentPerformance.list) :
          i \notin LastResults => ~recentPerformance.list[i].correct
    /\ Cardinality(CorrectLastResults) = 4
    /\ ret.value = "hard"

----------------------------------------------------------------------------
(* Properties of the schedule, the velocity and the prediction              *)

\* C15: for every non-empty list of target topics and positive timeframe
\* the dailySchedule of generateLearningPath has exactly timeframe entries,
\* whose day fields are 1..timeframe in order, and estimatedDuration is the
\* timeframe.
C15_OneEntryPerDay ==
    (ret.op = "generateLearningPath" /\ Len(ret.targetTopics) > 0)
    => /\ ret.value # TypeError
       /\ Len(ret.value.dailySchedule) = ret.timeframe
       /\ \A d \in 1..ret.timeframe : ret.value.dailySchedule[d].day = d
       /\ ret.value.estimatedDuration = ret.timeframe

\* five targets in three phases scheduled over two days
C15_Witness ==
    /\ ret.op = "generateLearningPath"
    /\ Len(ret.targetTopics) >= 5
    /\ ret.timeframe = 2
    /\ Len(ret.value.phases) = 3
    /\ Len(ret.value.dailySchedule) = 2
    /\ ret.value.dailySchedule[2].day = 2

\* the level of the topic of a predictTimeToMastery call, as the call
\* computed it
PredictLevel ==
    IF ret.topic \in DOMAIN studentProgress
    THEN calculateMasteryLevel(studentProgress[ret.topic].attempts,
                               ret.fp[ret.topic]).level
    ELSE 0

PredictVelocity == ret.learningVelocity.topicsPerWeek

\* remaining / ((topicsPerWeek / 7) * 10) = PredictNum / PredictDen
PredictNum == (70 - PredictLevel) * 7 * PredictVelocity.den

PredictDen == 10 * PredictVelocity.num

\* the double quotient of line 327 fell just above the integer it should be
FellAbove == ret.above /\ PredictNum % PredictDen = 0

\* Math.ceil of the quotient is at most v, at least v
CeilAtMost(v) ==
    IF FellAbove THEN PredictNum + PredictDen <= v * PredictDen
    ELSE PredictNum <= v * PredictDen

CeilAtLeast(v) ==
    IF FellAbove THEN PredictNum + PredictDen >= v * PredictDen
    ELSE PredictNum > (v - 1) * PredictDen

C17_ZeroWeeksGuarded ==
    (ret.op = "calculateLearningVelocity" /\ ret.weeks = 0)
    => /\ ret.value.topicsPerWeek.num = 0
       /\ ret.value.topicsPerWeek.den # 0
       /\ ret.value.velocity \in {"fast", "steady", "slow"}

\* C18: predictTimeToMastery called with topicsPerWeek = 0 for a topic
\* whose level is below 70 returns a number in 1..90.
C18_ZeroVelocityInRange ==
    ( /\ ret.op = "predictTimeToMastery"
      /\ PredictVelocity.num = 0
      /\ PredictVelocity.den > 0
      /\ PredictLevel < 70 )
    => /\ ret.value.den = 1
       /\ ret.value.num \in 1..90

\* a topic with attempts and a level below 70 at velocity 0: 90 days
C18_Witness ==
    /\ ret.op = "predictTimeToMastery"
    /\ PredictVelocity.num = 0
    /\ PredictVelocity.den > 0
    /\ AttemptsOf(studentProgress, ret.topic) # <<>>
    /\ PredictLevel > 0
    /\ PredictLevel < 70
    /\ ret.value = Quotient(90, 1)

\* the attempts of a topic in the window of a calculateLearningVelocity call
InWindow(topic) ==
    LET In(a) == a.timestamp >= ret.now - ret.weeks * 7
    IN  SelectSeq(studentProgress[topic].attempts, In)

WindowStarted == { topic \in DOMAIN studentProgress : InWindow(topic) # <<>> }

WindowMastered ==
    { topic \in WindowStarted :
        calculateMasteryLevel(InWindow(topic), ret.fp[topic]).level >= 70 }

WindowTimeSpent ==
    SumOver([topic \in WindowStarted |-> studentProgress[topic].timeSpent],
            WindowStarted)

\* the double x is a / b
IsQuotient(x, a, b) == x.den # 0 /\ x.num * b = a * x.den

\* C19: for weeks > 0 calculateLearningVelocity counts a topic as started
\* exactly when an attempt of it has a timestamp at or after now minus
\* weeks * 7 days, and as mastered exactly when calculateMasteryLevel of its
\* attempts in that window is at least 70; topicsPerWeek is topicsMastered /
\* weeks, averageTimePerTopic the timeSpent of the started topics over
\* topicsStarted (0 when none started), velocity 'fast' exactly when
\* topicsPerWeek > 1, 'steady' exactly when 0.5 < topicsPerWeek <= 1, else
\* 'slow'; and topicsMastered <= topicsStarted.
C19_VelocityOfWindow ==
    (ret.op = "calculateLearningVelocity" /\ ret.weeks > 0)
    => LET started == Cardinality(WindowStarted)
           mastered == Cardinality(WindowMastered)
       IN  /\ ret.value.topicsStarted = started
           /\ ret.value.topicsMastered = mastered
           /\ IsQuotient(ret.value.topicsPerWeek, mastered, ret.weeks)
           /\ IF started > 0
              THEN IsQuotient(ret.value.averageTimePerTopic, WindowTimeSpent,
                              started)
              ELSE IsQuotient(ret.value.averageTimePerTopic, 0, 1)
           /\ ret.value.velocity = "fast" <=> mastered > ret.weeks
           /\ ret.value.velocity = "steady"
                <=> (2 * mastered > ret.weeks /\ mastered <= ret.weeks)
           /\ ret.value.velocity = "slow" <=> 2 * mastered <= ret.weeks
           /\ ret.value.topicsMastered <= ret.value.topicsStarted

\* a topic is mastered by its attempt on the first day of the window alone,
\* behind an older attempt that is left out
C19_Witness ==
    /\ ret.op = "calculateLearningVelocity"
    /\ ret.weeks = 1
    /\ ret.value.topicsMastered = 1
    /\ ret.value.velocity = "steady"
    /\ ret.value.averageTimePerTopic.num > 0
    /\ \E topic \in WindowMastered :
          /\ Len(InWindow(topic)) < Len(studentProgress[topic].attempts)
          /\ InWindow(topic)[1].timestamp = ret.now - 7

----------------------------------------------------------------------------
(* Properties of the calls as a whole                                       *)

\* the arguments of the call that produced r: all that the caller passed,
\* and the sides of the roundings, but not the reading of the clock
Arguments(r) == [f \in DOMAIN r \ {"value", "now"} |-> r[f]]

\* C21 (as claimed): every exported function reads only its arguments: two
\* invocations with equal arguments, on equal data, return equal results
\* whatever the moment of each invocation.
C21_EqualArgumentsEqualResults ==
    [][ ( /\ ret.op # "none"
          /\ ret'.op # "none"
          /\ UNCHANGED <<studentProgress, curriculumGraph, assessmentResults,
                         recentPerformance>>
          /\ Arguments(ret') = Arguments(ret) )
        => ret'.value = ret.value ]_vars

----------------------------------------------------------------------------
(* Vocabulary of the prerequisite relation                                  *)

\* the prerequisites that the graph lists for a topic
PrerequisitesOf(topic) ==
    UNION { curriculumGraph[i].prerequisites :
              i \in { j \in GraphIndexes : curriculumGraph[j].topic = topic } }

RECURSIVE NeededWithin(_, _)
\* the topics reached from those of S in at most k steps of the relation
NeededWithin(S, k) ==
    IF k = 0 THEN S
    ELSE NeededWithin(S \cup UNION { PrerequisitesOf(u) : u \in S }, k - 1)

\* the topics a topic waits for, directly or not
Needs(topic) == NeededWithin(PrerequisitesOf(topic), Cardinality(Topics))

OnCycle(topic) == topic \in Needs(topic)

\* the topics on a cycle with the topic
CycleOf(topic) == { u \in Needs(topic) : topic \in Needs(u) }

\* the graph entry i is on a cycle none of whose topics is mastered
Stuck(i) ==
    /\ OnCycle(curriculumGraph[i].topic)
    /\ \A u \in CycleOf(curriculumGraph[i].topic) :
          u \in Topics /\ LevelNow(u) < 70

\* C23: for a graph with a prerequisite cycle (a topic that lists itself
\* included) none of whose topics has a level >= 70, getNextTopic returns
\* and never recommends a topic of the cycle; when no topic outside such a
\* cycle is available it returns none.
C23_CycleNeverRecommended ==
    (ret.op = "getNextTopic")
    => /\ \A i \in GraphIndexes : Stuck(i) => ~Recommends(i)
       /\ ( /\ \E i \in GraphIndexes : Stuck(i)
            /\ \A i \in GraphIndexes : ~Stuck(i) => ~AvailableNow(i) )
          => ret.value = Null

\* the topics of a cycle of two have been attempted, the topic outside the
\* cycle is mastered, and nothing is recommended
C23_Witness ==
    /\ ret.op = "getNextTopic"
    /\ \E i, j \in GraphIndexes :
          /\ i # j
          /\ Stuck(i)
          /\ curriculumGraph[j].topic \in CycleOf(curriculumGraph[i].topic)
          /\ LevelNow(curriculumGraph[i].topic) > 20
    /\ \E k \in GraphIndexes : LevelNow(curriculumGraph[k].topic) >= 70
    /\ ret.value = Null

----------------------------------------------------------------------------
(* Properties of the phases and of their days                               *)

RECURSIVE TopicsUpTo(_, _)
\* the topic lists of the first k phases, one behind the other
TopicsUpTo(phases, k) ==
    IF k = 0 THEN <<>> ELSE TopicsUpTo(phases, k - 1) \o phases[k].topics

\* c is ceil(a / b)
IsCeil(c, a, b) == (c - 1) * b < a /\ a <= c * b

\* the path of a generateLearningPath call for a non-empty list of targets
PathCall == ret.op = "generateLearningPath" /\ Len(ret.targetTopics) > 0

\* C24: for every list of n >= 1 target topics generateLearningPath builds
\* ceil(n / ceil(n / 4)) phases, numbered from 1 and never more than 4;
\* every phase is non-empty and holds at most ceil(n / 4) topics, the topic
\* lists of the phases in order make up the target list, and each phase
\* has one goal 'Master X' per topic and the duration
\* ceil(timeframe / phaseCount).
C24_PhasesPartitionTargets ==
    PathCall
    => /\ ret.value # TypeError
       /\ \E size \in 1..Len(ret.targetTopics) :
             /\ IsCeil(size, Len(ret.targetTopics), 4)
             /\ IsCeil(Len(ret.value.phases), Len(ret.targetTopics), size)
             /\ \A i \in 1..Len(ret.value.phases) :
                   /\ Len(ret.value.phases[i].topics) >= 1
                   /\ Len(ret.value.phases[i].topics) <= size
       /\ Len(ret.value.phases) <= 4
       /\ TopicsUpTo(ret.value.phases, Len(ret.value.phases))
            = ret.targetTopics
       /\ \A i \in 1..Len(ret.value.phases) :
             LET phase == ret.value.phases[i]
             IN  /\ phase.phase = i
                 /\ Len(phase.goals) = Len(phase.topics)
                 /\ \A j \in 1..Len(phase.topics) :
                       phase.goals[j] = <<"Master", phase.topics[j]>>
                 /\ IsCeil(phase.duration, ret.timeframe,
                           Len(ret.value.phases))

\* five targets in phases of two, two and one topics
C24_Witness ==
    /\ PathCall
    /\ Len(ret.targetTopics) = 5
    /\ ret.timeframe = 5
    /\ Len(ret.value.phases) = 3
    /\ Len(ret.value.phases[2].topics) = 2
    /\ ret.value.phases[3].topics = <<ret.targetTopics[5]>>
    /\ ret.value.phases[3].duration = 2

\* C25: for a non-empty target list and a positive timeframe the entry of
\* dailySchedule for day d has the phase number
\* floor((d - 1) / (timeframe / phaseCount)) + 1, which is one of
\* 1..phaseCount and does not decrease with d, and the topics of the entry
\* are the topics of the phase with that number.
C25_DayInItsPhase ==
    PathCall
    => /\ ret.value # TypeError
       /\ \A d \in 1..Len(ret.value.dailySchedule) :
             LET entry == ret.value.dailySchedule[d]
                 count == Len(ret.value.phases)
             IN  /\ entry.phase \in 1..count
                 /\ (entry.phase - 1) * ret.timeframe <= (d - 1) * count
                 /\ (d - 1) * count < entry.phase * ret.timeframe
                 /\ entry.topics = ret.value.phases[entry.phase].topics
                 /\ d > 1 => ret.value.dailySchedule[d - 1].phase <= entry.phase

\* both days of a timeframe of 2 over 3 phases: day 2 is of phase 2
C25_Witness ==
    /\ PathCall
    /\ ret.timeframe = 2
    /\ Len(ret.value.phases) = 3
    /\ ret.value.dailySchedule[1].phase = 1
    /\ ret.value.dailySchedule[2].phase = 2
    /\ ret.value.dailySchedule[2].topics = ret.value.phases[2].topics

\* the days that the schedule gives to the phase numbered k
DaysOf(k) ==
    { d \in 1..Len(ret.value.dailySchedule) :
        ret.value.dailySchedule[d].phase = k }

\* C30: for a non-empty target list and a timeframe >= phaseCount every
\* phase of the path gets at least one day of dailySchedule and at most
\* the days of its duration ceil(timeframe / phaseCount).
C30_EveryPhaseScheduled ==
    PathCall
    => /\ ret.value # TypeError
       /\ ret.timeframe >= Len(ret.value.phases)
            => \A k \in 1..Len(ret.value.phases) :
                  /\ Cardinality(DaysOf(k)) >= 1
                  /\ Cardinality(DaysOf(k)) <= ret.value.phases[k].duration

\* 4 days over 3 phases of duration 2: two days, one day, one day
C30_Witness ==
    /\ PathCall
    /\ ret.timeframe = 4
    /\ Len(ret.value.phases) = 3
    /\ ret.value.phases[1].duration = 2
    /\ Cardinality(DaysOf(1)) = 2
    /\ Cardinality(DaysOf(2)) = 1
    /\ Cardinality(DaysOf(3)) = 1

----------------------------------------------------------------------------
(* Properties of long and of uniform histories                              *)

\* the first k attempts of topic A
FirstAttempts(k) == SubSeq(AttemptsOf(studentProgress, "A"), 1, k)

\* C26: for a history of n >= 8 attempts that are all fully correct
\* calculateMasteryLevel returns a level below 70, so getNextTopic does not
\* count the topic as mastered: it still recommends the topic and keeps the
\* topic that lists it as prerequisite unavailable; and appending fully
\* correct attempts to an all-correct history never raises the level.
C26_LongCorrectHistoryUnmastered ==
    LET attempts == AttemptsOf(studentProgress, "A")
    IN  /\ ( /\ ret.op = "calculateMasteryLevel"
             /\ AllCorrect(attempts) )
           => /\ Len(attempts) >= 8 => ret.value.level < 70
              /\ \A k \in 1..(Len(attempts) - 1), side \in BOOLEAN :
                    calculateMasteryLevel(FirstAttempts(k), side).level
                      >= ret.value.level
        /\ ( /\ ret.op = "getNextTopic"
             /\ AllCorrect(attempts)
             /\ Len(attempts) >= 8 )
           => /\ ret.value # Null
              /\ ret.value.topic = "A"
              /\ ret.value.currentMastery < 70

\* after 8 fully correct attempts of A, A is recommended at level 69
C26_Witness ==
    /\ ret.op = "getNextTopic"
    /\ Len(AttemptsOf(studentProgress, "A")) = 8
    /\ AllCorrect(AttemptsOf(studentProgress, "A"))
    /\ ret.value # Null
    /\ ret.value.topic = "A"
    /\ ret.value.currentMastery = 69

\* no topic of the graph waits for itself, directly or not
Acyclic == \A i \in GraphIndexes : ~OnCycle(curriculumGraph[i].topic)

\* every prerequisite is a topic of the graph
Closed ==
    \A i \in GraphIndexes :
       \A prereq \in curriculumGraph[i].prerequisites :
          \E j \in GraphIndexes : curriculumGraph[j].topic = prereq

\* C27: for an acyclic curriculum graph whose prerequisites are all topics
\* of the graph, getNextTopic returns a recommendation exactly when some
\* topic of the graph has a level below 70, whatever the progress reached.
C27_RecommendsWhileUnmastered ==
    (ret.op = "getNextTopic" /\ Acyclic /\ Closed)
    => ( ret.value # Null
           <=> \E i \in GraphIndexes : LevelNow(curriculumGraph[i].topic) < 70 )

\* two topics of a graph with prerequisites are mastered and the third,
\* which has been attempted, is recommended
C27_Witness ==
    /\ ret.op = "getNextTopic"
    /\ Acyclic
    /\ Closed
    /\ Len(curriculumGraph) = 3
    /\ \E i \in GraphIndexes : curriculumGraph[i].prerequisites # {}
    /\ Cardinality({ i \in GraphIndexes :
                       LevelNow(curriculumGraph[i].topic) >= 70 }) = 2
    /\ ret.value # Null
    /\ ret.value.currentMastery > 0

\* the topic has been attempted and no attempt has a correct answer
AllWrong(topic) ==
    /\ topic \in DOMAIN studentProgress
    /\ studentProgress[topic].attempts # <<>>
    /\ \A k \in 1..Len(studentProgress[topic].attempts) :
          studentProgress[topic].attempts[k].correct = 0

NeverAttempted(topic) == AttemptsOf(studentProgress, topic) = <<>>

\* what calculateMasteryLevel returns for the topic within the call
MasteryNow(topic) ==
    calculateMasteryLevel(AttemptsOf(studentProgress, topic), ret.fp[topic])

\* C28: a topic whose attempts are all without a correct answer has level 30
\* and status 'struggling'; when it is available, getNextTopic recommends a
\* topic that is in progress (20 < level < 70) and never an available topic
\* without attempts, whatever the importances.
C28_AllWrongAheadOfUnattempted ==
    ret.op = "getNextTopic" =>
       \A i \in GraphIndexes :
          AllWrong(curriculumGraph[i].topic) =>
             /\ MasteryNow(curriculumGraph[i].topic).level = 30
             /\ MasteryNow(curriculumGraph[i].topic).status = "struggling"
             /\ AvailableNow(i) =>
                   /\ ret.value # Null
                   /\ ret.value.currentMastery > 20
                   /\ ret.value.currentMastery < 70
                   /\ \A j \in GraphIndexes :
                         NeverAttempted(curriculumGraph[j].topic)
                            => ~Recommends(j)

\* the recommended topic has only wrong attempts and importance 3 while an
\* available topic of importance 8 has no attempt
C28_Witness ==
    /\ ret.op = "getNextTopic"
    /\ \E i, j \in GraphIndexes :
          /\ AllWrong(curriculumGraph[i].topic)
          /\ Len(studentProgress[curriculumGraph[i].topic].attempts) >= 2
          /\ Recommends(i)
          /\ ret.value.currentMastery = 30
          /\ ret.value.status = "struggling"
          /\ NeverAttempted(curriculumGraph[j].topic)
          /\ AvailableNow(j)
          /\ ImportanceNow(i) < ImportanceNow(j)

\* the tiers in their order easy < medium < hard
Tier(difficulty) ==
    CASE difficulty = "easy" -> 1
      [] difficulty = "medium" -> 2
      [] difficulty = "hard" -> 3

\* the performance history before its last result was appended
PerformanceBefore ==
    [list |-> SubSeq(recentPerformance.list, 1,
                     Len(recentPerformance.list) - 1)]

Distance(a, b) == IF a >= b THEN a - b ELSE b - a

\* C29: when a result is appended to a performance history of at least 5
\* results, the tiers that calculateOptimalDifficulty returns before and
\* after the append are at most one step apart in easy < medium < hard.
C29_TierMovesOneStep ==
    ( /\ ret.op = "calculateOptimalDifficulty"
      /\ recentPerformance # Null
      /\ Len(recentPerformance.list) >= RecentWindow + 1 )
    => Distance(Tier(ret.value),
                Tier(calculateOptimalDifficulty(PerformanceBefore))) <= 1

\* a seventh result moves the tier from 'medium' to 'hard'
C29_Witness ==
    /\ ret.op = "calculateOptimalDifficulty"
    /\ recentPerformance # Null
    /\ Len(recentPerformance.list) = 7
    /\ ret.value = "hard"
    /\ calculateOptimalDifficulty(PerformanceBefore) = "medium"

=============================================================================
